---- MODULE Spec2Model ----
(***************************************************************************)
(* SRT2Clips: caption-driven audio segmentation.                           *)
(*   src/srt2clip_b.py      time codec, caption parser, batch run          *)
(*   src/srt2clip_webui.py  table save, single-clip extraction, save_clip  *)
(* Text (file contents, file names, paths) is a sequence of one-character  *)
(* strings, so that split, strip, regular-expression matches and number    *)
(* formatting are computed character by character, as Python does.         *)
(***************************************************************************)
EXTENDS Integers, Sequences, FiniteSets, TLC

VARIABLES
    pc,          \* position of the running operation
    ms,          \* codec: the millisecond value handed to format_time
    timeStr,     \* codec: the text format_time returned
    parsedMs,    \* codec: what parse_srt_time returned for timeStr
    doc,         \* the blocks / table rows the caption text was made from
    content,     \* the text of the caption file
    subtitles,   \* read_srt_file's return value (or its ValueError)
    audioLen,    \* len(audio): duration of the decoded recording, ms
    silence,     \* silence_duration
    i,           \* generate_files: number of subtitles already processed
    run,         \* number of the batch run in progress (1 or 2)
    outdir,      \* output directory: file name -> file content
    firstOut,    \* the output directory as the first batch run left it
    clips,       \* generate_files: locals of each finished loop iteration
    tmpdir,      \* interactive: names of the files in the audio's directory
    dirs,        \* interactive: directory path -> names of the files in it
    textClip,    \* interactive: path of the caption clip (text_select)
    savePath,    \* interactive: the save_path text box
    notice       \* interactive: what the last save_clip reported

vars == <<pc, ms, timeStr, parsedMs, doc, content, subtitles, audioLen, silence,
          i, run, outdir, firstOut, clips, tmpdir, dirs, textClip, savePath, notice>>

codecVars == <<ms, timeStr, parsedMs>>
textVars  == <<doc, content, subtitles>>
batchVars == <<audioLen, silence, i, run, outdir, firstOut, clips>>
saveVars  == <<tmpdir, dirs, textClip, savePath, notice>>

----------------------------------------------------------------------------
(* Bounds of the model *)

\* Codec inputs are base + offset, offset in 0..MaxOffset.
MaxOffset == 1200
\* Longest document, in blocks (parser) or table rows (serializer).
MaxBlocks == 3
\* Longest caption document of a batch run, in records.
MaxRecords == 2

----------------------------------------------------------------------------
(* Characters and decimal numbers *)

NL == "\n"
SP == " "
Digits == <<"0", "1", "2", "3", "4", "5", "6", "7", "8", "9">>

\* \d
IsDigit(c) == \E d \in 1..10 : Digits[d] = c

DigitVal(c) == (CHOOSE d \in 1..10 : Digits[d] = c) - 1

\* int(s) for a string of decimal digits
RECURSIVE ToInt(_)
ToInt(s) ==
    IF s = <<>> THEN 0
    ELSE 10 * ToInt(SubSeq(s, 1, Len(s) - 1)) + DigitVal(s[Len(s)])

\* str(n) for n >= 0
RECURSIVE DecStr(_)
DecStr(n) ==
    IF n < 10 THEN <<Digits[n + 1]>>
    ELSE DecStr(n \div 10) \o <<Digits[(n % 10) + 1]>>

RECURSIVE Zeros(_)
Zeros(n) == IF n <= 0 THEN <<>> ELSE <<"0">> \o Zeros(n - 1)

\* f"{n:0{w}d}": w is a minimum width, a longer number is written in full
ZeroPad(n, w) == Zeros(w - Len(DecStr(n))) \o DecStr(n)

----------------------------------------------------------------------------
(* Time codec *)

\* A call either returns a value or raises ValueError.
Return(v) == [err |-> FALSE, val |-> v]
ValueError == [err |-> TRUE, val |-> <<>>]

\* re.match(r"(\d{2}):(\d{2}):(\d{2}),(\d{3})", time_str): anchored at the
\* start of the string only; what follows the 12 characters is ignored.
TimeMatch(s) ==
    /\ Len(s) >= 12
    /\ \A p \in {1, 2, 4, 5, 7, 8, 10, 11, 12} : IsDigit(s[p])
    /\ s[3] = ":"
    /\ s[6] = ":"
    /\ s[9] = ","

parse_srt_time(s) ==
    IF ~TimeMatch(s) THEN ValueError
    ELSE Return(ToInt(SubSeq(s, 1, 2)) * 3600 * 1000
                + ToInt(SubSeq(s, 4, 5)) * 60 * 1000
                + ToInt(SubSeq(s, 7, 8)) * 1000 + ToInt(SubSeq(s, 10, 12)))

(* format_time computes in binary64: total_seconds = milliseconds / 1000 is
   the double nearest to m/1000.  Write m = 1000*q + r.  The double is
   M * 2^-k with 2^52 <= M < 2^53, M = m * 2^k / 1000 rounded to nearest
   (ties to even), k = 52 - Binade(m).  Its error, in units of 2^-k / 1000,
   is DivErr(m) = 1000*M - m*2^k, which only needs m * 2^k modulo 2000.
   int(total_seconds) is q, the subtraction total_seconds - q is exact, and
   the product by 1000 is the double nearest to r + DivErr(m) / 2^k. *)

RECURSIVE Pow2Mod(_, _)
Pow2Mod(k, n) == IF k = 0 THEN 1 % n ELSE (2 * Pow2Mod(k - 1, n)) % n

\* floor(log2(m / 1000)) for m >= 1: the exponent of the double m / 1000
RECURSIVE BinadeUp(_, _)
BinadeUp(m, e) == IF 1000 * 2^(e + 1) <= m THEN BinadeUp(m, e + 1) ELSE e

RECURSIVE BinadeDown(_, _)
BinadeDown(m, n) == IF m * 2^n >= 1000 THEN -n ELSE BinadeDown(m, n + 1)

Binade(m) == IF m >= 1000 THEN BinadeUp(m, 0) ELSE BinadeDown(m, 1)

DivErr(m) ==
    LET k   == 52 - Binade(m)
        x   == ((m % 2000) * Pow2Mod(k, 2000)) % 2000
        rem == x % 1000
    IN  IF rem < 500 THEN -rem
        ELSE IF rem > 500 THEN 1000 - rem
        ELSE IF x \div 1000 = 0 THEN -500 ELSE 500

\* j with 2^j < r <= 2^(j+1), r >= 1: doubles just below r are 2^(j-52) apart
RECURSIVE BelowExp(_, _)
BelowExp(r, j) == IF r <= 2^(j + 1) THEN j ELSE BelowExp(r, j + 1)

\* int((total_seconds - int(total_seconds)) * 1000)
FracMs(m) ==
    LET r == m % 1000
    IN  IF r = 0 THEN 0
        ELSE LET d == DivErr(m)
                 \* the product rounds below r iff -d / 2^k > 2^(j-53),
                 \* i.e. -d > 2^(j - Binade(m) - 1); j is -1 for r = 1
                 e == (IF r = 1 THEN -1 ELSE BelowExp(r, 0)) - Binade(m) - 1
                 below == IF e >= 0 THEN -d > 2^e ELSE (-d) * 2^(-e) > 1
             IN  IF d < 0 /\ below THEN r - 1 ELSE r

\* A variant of format_time that writes the milliseconds unpadded ({ms:d}).
format_time_unpadded(m) ==
    LET total == m \div 1000
    IN  ZeroPad(total \div 3600, 2) \o <<":">> \o ZeroPad((total % 3600) \div 60, 2)
        \o <<":">> \o ZeroPad(total % 60, 2) \o <<",">> \o DecStr(FracMs(m))

format_time(m) ==
    LET total   == m \div 1000            \* floor of total_seconds
        hours   == total \div 3600
        minutes == (total % 3600) \div 60
        seconds == total % 60
    IN  ZeroPad(hours, 2) \o <<":">> \o ZeroPad(minutes, 2) \o <<":">>
        \o ZeroPad(seconds, 2) \o <<",">> \o ZeroPad(FracMs(m), 3)

----------------------------------------------------------------------------
(* Python string operations *)

MatchAt(s, sep, p) ==
    /\ p + Len(sep) - 1 <= Len(s)
    /\ SubSeq(s, p, p + Len(sep) - 1) = sep

\* The first occurrence of sep in s at or after position p, 0 for none
FirstMatch(s, sep, p) ==
    LET found == {q \in p..Len(s) : MatchAt(s, sep, q)}
    IN  IF found = {} THEN 0 ELSE CHOOSE q \in found : \A o \in found : q <= o

\* s.split(sep): scanned left to right, matches do not overlap
RECURSIVE SplitFrom(_, _, _)
SplitFrom(s, sep, p) ==
    LET q == FirstMatch(s, sep, p)
    IN  IF q = 0 THEN <<SubSeq(s, p, Len(s))>>
        ELSE <<SubSeq(s, p, q - 1)>> \o SplitFrom(s, sep, q + Len(sep))

Split(s, sep) == SplitFrom(s, sep, 1)

RECURSIVE Join(_, _)
Join(pieces, sep) ==
    IF pieces = <<>> THEN <<>>
    ELSE IF Len(pieces) = 1 THEN pieces[1]
    ELSE pieces[1] \o sep \o Join(Tail(pieces), sep)

\* s.replace(old, new): every occurrence
Replace(s, old, new) == Join(Split(s, old), new)

IsSpace(c) == c \in {SP, NL, "\t"}

RECURSIVE LStrip(_)
LStrip(s) == IF s # <<>> /\ IsSpace(Head(s)) THEN LStrip(Tail(s)) ELSE s

RECURSIVE RStrip(_)
RStrip(s) ==
    IF s # <<>> /\ IsSpace(s[Len(s)]) THEN RStrip(SubSeq(s, 1, Len(s) - 1)) ELSE s

\* s.strip()
Strip(s) == LStrip(RStrip(s))

\* re.match(r"^\d+", s).group(): the leading run of digits, <<>> for no match
RECURSIVE LeadingDigits(_)
LeadingDigits(s) ==
    IF s # <<>> /\ IsDigit(Head(s)) THEN <<Head(s)>> \o LeadingDigits(Tail(s))
    ELSE <<>>

----------------------------------------------------------------------------
(* Caption parser *)

Arrow == <<" ", "-", "-", ">", " ">>

\* [block.strip() for block in content.split("\n\n") if block.strip()]
Blocks(text) ==
    LET parts == Split(text, <<NL, NL>>)
        keep  == SelectSeq(parts, LAMBDA b : Strip(b) # <<>>)
    IN  [n \in 1..Len(keep) |-> Strip(keep[n])]

\* A variant of ReadBlock that raises on a block of fewer than 3 lines.
ReadBlockStrict(block) ==
    LET lines == Split(block, <<NL>>)
    IN  IF Len(lines) < 3 THEN [kind |-> "raise"]
        ELSE IF LeadingDigits(lines[1]) = <<>> THEN [kind |-> "skip"]
        ELSE LET times == Split(lines[2], Arrow)
             IN  IF Len(times) # 2 THEN [kind |-> "raise"]
                 ELSE LET start == parse_srt_time(times[1])
                          end   == parse_srt_time(times[2])
                      IN  IF start.err \/ end.err THEN [kind |-> "raise"]
                          ELSE [kind |-> "sub",
                                sub  |-> [idx   |-> ToInt(LeadingDigits(lines[1])),
                                          start |-> start.val,
                                          end   |-> end.val,
                                          text  |-> lines[3]]]

\* One pass of the loop body of read_srt_file: "skip" for a continue, a
\* ValueError from the unpacking of the split or from parse_srt_time, or the
\* record appended to subtitles.
ReadBlock(block) ==
    LET lines == Split(block, <<NL>>)
    IN  IF Len(lines) < 3 THEN [kind |-> "skip"]
        ELSE IF LeadingDigits(lines[1]) = <<>> THEN [kind |-> "skip"]
        ELSE LET times == Split(lines[2], Arrow)
             IN  IF Len(times) # 2 THEN [kind |-> "raise"]
                 ELSE LET start == parse_srt_time(times[1])
                          end   == parse_srt_time(times[2])
                      IN  IF start.err \/ end.err THEN [kind |-> "raise"]
                          ELSE [kind |-> "sub",
                                sub  |-> [idx   |-> ToInt(LeadingDigits(lines[1])),
                                          start |-> start.val,
                                          end   |-> end.val,
                                          text  |-> lines[3]]]

RECURSIVE ReadBlocks(_, _)
ReadBlocks(blocks, subs) ==
    IF blocks = <<>> THEN Return(subs)
    ELSE LET r == ReadBlock(Head(blocks))
         IN  IF r.kind = "raise" THEN ValueError
             ELSE IF r.kind = "skip" THEN ReadBlocks(Tail(blocks), subs)
             ELSE ReadBlocks(Tail(blocks), Append(subs, r.sub))

read_srt_file(text) == ReadBlocks(Blocks(text), <<>>)

----------------------------------------------------------------------------
(* Values of the variables an operation does not use *)

NoFiles == [n \in {} |-> <<>>]

CodecIdle == ms = 0 /\ timeStr = <<>> /\ parsedMs = ValueError
TextIdle  == doc = <<>> /\ content = <<>> /\ subtitles = Return(<<>>)
BatchIdle ==
    /\ audioLen = 0 /\ silence = 0 /\ i = 0 /\ run = 0
    /\ outdir = NoFiles /\ firstOut = NoFiles /\ clips = <<>>
SaveIdle ==
    /\ tmpdir = {} /\ dirs = NoFiles /\ textClip = <<>> /\ savePath = <<>>
    /\ notice = "none"

----------------------------------------------------------------------------
(* Time codec: format_time applied to a millisecond value, parse_srt_time
   applied to the text it returned *)

\* Values around each field's carry, up to and past 100 hours.
CodecBases == {0, 59000, 83000, 3599000, 359998800, 360000000}
CodecInputs == {b + o : b \in CodecBases, o \in 0..MaxOffset}

CodecInit ==
    /\ pc = "format"
    /\ ms \in CodecInputs
    /\ timeStr = <<>> /\ parsedMs = ValueError
    /\ TextIdle /\ BatchIdle /\ SaveIdle

Format ==
    /\ pc = "format"
    /\ timeStr' = format_time(ms)
    /\ pc' = "parse"
    /\ UNCHANGED <<ms, parsedMs, textVars, batchVars, saveVars>>

Parse ==
    /\ pc = "parse"
    /\ parsedMs' = parse_srt_time(timeStr)
    /\ pc' = "parsed"
    /\ UNCHANGED <<ms, timeStr, textVars, batchVars, saveVars>>

CodecNext == Format \/ Parse

CodecSpec == CodecInit /\ [][CodecNext]_vars

----------------------------------------------------------------------------
(* Caption files given to the program *)

\* HH:MM:SS,mmm as the author of a caption file writes it
TimeText(t) ==
    ZeroPad(t \div 3600000, 2) \o <<":">> \o ZeroPad((t \div 60000) % 60, 2)
    \o <<":">> \o ZeroPad((t \div 1000) % 60, 2) \o <<",">> \o ZeroPad(t % 1000, 3)

TimeLine(start, end) == TimeText(start) \o Arrow \o TimeText(end)

Hello == <<"H", "e", "l", "l", "o">>
World == <<"W", "o", "r", "l", "d">>

\* A well-formed block: index line, time line, text line.  Its record
\* holds the text line less the white space that ends it, which ends the
\* block as well.
GoodBlock(idx, start, end, text) ==
    [kind  |-> "good",
     lines |-> <<DecStr(idx), TimeLine(start, end), text>>,
     sub   |-> [idx |-> idx, start |-> start, end |-> end, text |-> RStrip(text)]]

OtherBlock(kind, lines) ==
    [kind |-> kind, lines |-> lines,
     sub |-> [idx |-> 0, start |-> 0, end |-> 0, text |-> <<>>]]

GoodBlocks ==
    {GoodBlock(1, 1000, 2500, Hello),
     GoodBlock(12, 359999000, 359999999, <<"a", " ", "b">>),
     GoodBlock(3, 3000, 4000, <<" ", "H", "i", " ">>)}

\* Malformed blocks the parser skips: fewer than 3 lines, or a first line
\* that does not start with a digit.
SkippedBlocks ==
    {OtherBlock("short", <<<<"7">>, TimeLine(1000, 2500)>>),
     OtherBlock("short", <<World>>),
     OtherBlock("short", <<<<"8">>, <<>>>>),
     OtherBlock("noindex", <<<<"#", "3">>, TimeLine(1000, 2500), Hello, <<"4">>>>)}

\* Three lines and an index, but no valid 'start --> end' line.
BadTimeBlocks ==
    {OtherBlock("badtime", <<<<"5">>, <<"0", ":", "0", "1">> \o Arrow \o TimeText(0), Hello>>)}

FileBlocks == GoodBlocks \cup SkippedBlocks \cup BadTimeBlocks

\* What may follow the last block of a file.
FileEnds == {<<>>, <<NL>>, <<NL, NL>>}

----------------------------------------------------------------------------
(* Reading a caption file: a file is written block by block, then
   read_srt_file parses it *)

ReadInit ==
    /\ pc = "write"
    /\ doc = <<>> /\ content = <<>> /\ subtitles = Return(<<>>)
    /\ CodecIdle /\ BatchIdle /\ SaveIdle

WriteBlock ==
    /\ pc = "write"
    /\ Len(doc) < MaxBlocks
    /\ \E b \in FileBlocks :
          /\ doc' = Append(doc, b)
          /\ content' = (IF doc = <<>> THEN <<>> ELSE content \o <<NL, NL>>)
                         \o Join(b.lines, <<NL>>)
    /\ UNCHANGED <<pc, subtitles, codecVars, batchVars, saveVars>>

CloseFile ==
    /\ pc = "write"
    /\ doc # <<>>
    /\ \E e \in FileEnds : content' = content \o e
    /\ pc' = "read"
    /\ UNCHANGED <<doc, subtitles, codecVars, batchVars, saveVars>>

ReadSrtFile ==
    /\ pc = "read"
    /\ subtitles' = read_srt_file(content)
    /\ pc' = IF subtitles'.err THEN "raised" ELSE "parsed"
    /\ UNCHANGED <<doc, content, codecVars, batchVars, saveVars>>

ReadNext == WriteBlock \/ CloseFile \/ ReadSrtFile

ReadSpec == ReadInit /\ [][ReadNext]_vars

----------------------------------------------------------------------------
(* Editing a caption file in the table: update_table loads the uploaded
   file, every edit of a text cell saves the table with save_edits *)

IndexError == [err |-> TRUE, val |-> <<>>]

\* content.splitlines()
SplitLines(text) ==
    LET parts == Split(text, <<NL>>)
    IN  IF parts[Len(parts)] = <<>> THEN SubSeq(parts, 1, Len(parts) - 1) ELSE parts

\* The rows parse_srt collects from line n on: four lines per row, the
\* last row dropped unless its fourth line is there.
RECURSIVE TableRows(_, _)
TableRows(lines, n) ==
    IF n + 3 > Len(lines) THEN Return(<<>>)
    ELSE LET times == Split(lines[n + 1], Arrow)
             rest  == TableRows(lines, n + 4)
         IN  IF Len(times) < 2 \/ rest.err THEN IndexError
             ELSE Return(<<<<lines[n], times[1], times[2], lines[n + 2]>>>> \o rest.val)

parse_srt(text) == TableRows(SplitLines(text), 1)

update_table(text) == parse_srt(text)

\* A variant of save_edits that ends a row with one line break, leaving no
\* blank line between rows.
RECURSIVE save_edits_no_blank(_)
save_edits_no_blank(rows) ==
    IF rows = <<>> THEN <<>>
    ELSE LET row == Head(rows)
         IN  (IF Len(row) = 4
              THEN row[1] \o <<NL>> \o row[2] \o Arrow \o row[3] \o <<NL>>
                   \o row[4] \o <<NL>>
              ELSE <<>>)
             \o save_edits_no_blank(Tail(rows))

\* The text save_edits writes for the rows of the table
RECURSIVE save_edits(_)
save_edits(rows) ==
    IF rows = <<>> THEN <<>>
    ELSE LET row == Head(rows)
         IN  (IF Len(row) = 4
              THEN row[1] \o <<NL>> \o row[2] \o Arrow \o row[3] \o <<NL>>
                   \o row[4] \o <<NL, NL>>
              ELSE <<>>)
             \o save_edits(Tail(rows))

\* Uploaded caption files: well-formed blocks, each followed by a blank line.
UploadBlocks ==
    {GoodBlock(1, 1000, 2500, Hello), GoodBlock(12, 359999000, 359999999, World)}

RECURSIVE FileText(_)
FileText(blocks) ==
    IF blocks = <<>> THEN <<>>
    ELSE Join(Head(blocks).lines, <<NL>>) \o <<NL, NL>> \o FileText(Tail(blocks))

Uploads ==
    UNION {[1..n -> UploadBlocks] : n \in 1..MaxBlocks}

\* What the user may type into a text cell.
CellTexts ==
    {Hello, <<>>, <<SP>>, <<"H", "i", SP>>, <<SP, "H", "i">>}

EditInit ==
    /\ pc = "upload"
    /\ \E blocks \in Uploads : content = FileText(blocks)
    /\ doc = <<>> /\ subtitles = Return(<<>>)
    /\ CodecIdle /\ BatchIdle /\ SaveIdle

\* srt_input.change: update_table fills the table, which fires the
\* table's own change event
UpdateTable ==
    /\ pc = "upload"
    /\ ~update_table(content).err
    /\ doc' = update_table(content).val
    /\ pc' = "changed"
    /\ UNCHANGED <<content, subtitles, codecVars, batchVars, saveVars>>

\* The user edits the text cell of row r.
EditText ==
    /\ pc = "table"
    /\ \E r \in 1..Len(doc), t \in CellTexts : doc' = [doc EXCEPT ![r][4] = t]
    /\ pc' = "changed"
    /\ UNCHANGED <<content, subtitles, codecVars, batchVars, saveVars>>

\* output_table.change: save_edits rewrites the caption file from the table
SaveEdits ==
    /\ pc = "changed"
    /\ content' = save_edits(doc)
    /\ pc' = "table"
    /\ UNCHANGED <<doc, subtitles, codecVars, batchVars, saveVars>>

ReadBack ==
    /\ pc = "table"
    /\ subtitles' = read_srt_file(content)
    /\ pc' = IF subtitles'.err THEN "raised" ELSE "parsed"
    /\ UNCHANGED <<doc, content, codecVars, batchVars, saveVars>>

EditNext == UpdateTable \/ EditText \/ SaveEdits \/ ReadBack

EditSpec == EditInit /\ [][EditNext]_vars

----------------------------------------------------------------------------
(* Audio segments and files *)

Min(a, b) == IF a <= b THEN a ELSE b

\* An audio segment is a sequence of parts: silence of a duration, or the
\* milliseconds [from, to) of the decoded recording.

\* AudioSegment.silent(duration=d)
Silent(d) == IF d = 0 THEN <<>> ELSE <<[kind |-> "silence", from |-> 0, to |-> d]>>

\* A variant of Slice that takes the millisecond at end as well.
SliceInclusive(len, start, end) ==
    LET lo == Min(start, len)
        hi == Min(end + 1, len)
    IN  IF hi <= lo THEN <<>> ELSE <<[kind |-> "audio", from |-> lo, to |-> hi]>>

\* audio[start:end] on a recording of length len: pydub clamps both ends of
\* a slice to len(audio), so an interval past the end is cut short or empty.
Slice(len, start, end) ==
    LET lo == Min(start, len)
        hi == Min(end, len)
    IN  IF hi <= lo THEN <<>> ELSE <<[kind |-> "audio", from |-> lo, to |-> hi]>>

\* len(segment)
RECURSIVE SegLen(_)
SegLen(seg) ==
    IF seg = <<>> THEN 0 ELSE Head(seg).to - Head(seg).from + SegLen(Tail(seg))

\* A variant of add_silence that pads the start only.
add_silence_leading(audio, silence_duration) == Silent(silence_duration) \o audio

add_silence(audio, silence_duration) ==
    Silent(silence_duration) \o audio \o Silent(silence_duration)

\* A variant of WriteFile that appends to a file that exists (mode "a").
WriteFileAppend(dir, name, data) ==
    [n \in DOMAIN dir \cup {name} |->
        IF n # name THEN dir[n]
        ELSE IF name \in DOMAIN dir THEN dir[name] \o data ELSE data]

\* open(path, "w") / export(path): the file is created or replaced
WriteFile(dir, name, data) ==
    [n \in DOMAIN dir \cup {name} |-> IF n = name THEN data ELSE dir[n]]

\* Path(name).stem: the name without its last suffix
Stem(name) ==
    LET dots == {p \in 2..Len(name) : name[p] = "."}
    IN  IF dots = {} THEN name
        ELSE SubSeq(name, 1, (CHOOSE p \in dots : \A o \in dots : o <= p) - 1)

\* The caption file of a clip: one record, numbered 1
ClipCaption(start_time_new, end_time_new, text) ==
    <<"1", NL>> \o format_time(start_time_new) \o Arrow
    \o format_time(end_time_new) \o <<NL>> \o text \o <<NL>>

----------------------------------------------------------------------------
(* Batch run: srt2clip creates the output directory and runs
   generate_files, one loop iteration per subtitle *)

SrtFile == <<"l", "e", "s", "s", "o", "n", "1", ".", "s", "r", "t">>
WavExt == <<".", "w", "a", "v">>
SrtExt == <<".", "s", "r", "t">>

base_name == Stem(SrtFile)

\* A variant of ClipName that writes the index unpadded ({idx}).
ClipNameUnpadded(base, idx, ext) == base \o <<"_">> \o DecStr(idx) \o ext

\* f"{base_name}_{idx:03d}" + extension
ClipName(base, idx, ext) == base \o <<"_">> \o ZeroPad(idx, 3) \o ext

\* The locals of one pass of the loop of generate_files
GenerateClip(sub, len, silence_duration) ==
    LET chunk == Slice(len, sub.start, sub.end)
        chunk_with_silence == add_silence(chunk, silence_duration)
        duration == SegLen(chunk_with_silence)
    IN  [idx |-> sub.idx, text |-> sub.text, start |-> sub.start, end |-> sub.end,
         chunk_with_silence |-> chunk_with_silence,
         audio_filename |-> ClipName(base_name, sub.idx, WavExt),
         duration |-> duration,
         start_time_new |-> silence_duration,
         end_time_new |-> duration - silence_duration,
         srt_content |-> ClipCaption(silence_duration, duration - silence_duration,
                                     sub.text),
         srt_filename |-> ClipName(base_name, sub.idx, SrtExt)]

\* The caption records of the batch documents: the two of the worked
\* example, one ending on an odd millisecond, one repeating index 1, one
\* reaching past the end of the recording.
BatchBlocks ==
    {GoodBlock(1, 1000, 2500, Hello), GoodBlock(2, 3000, 4000, World),
     GoodBlock(12, 1000, 1501, World), GoodBlock(1, 3000, 4000, World),
     GoodBlock(2, 9000, 12000, Hello)}

\* Documents of up to MaxRecords records, no block written twice.
BatchDocs ==
    {d \in UNION {[1..n -> BatchBlocks] : n \in 0..MaxRecords} :
        \A j, k \in 1..Len(d) : j # k => d[j] # d[k]}

\* The default of srt2clip, and no padding.
Silences == {500, 0}
AudioLens == {10000}

\* The output directory may hold files of an earlier run.
StaleDirs ==
    {NoFiles, [n \in {ClipName(base_name, 1, SrtExt)} |-> <<"o", "l", "d">>]}

BatchInit ==
    /\ pc = "start"
    /\ \E blocks \in BatchDocs : content = FileText(blocks)
    /\ doc = <<>> /\ subtitles = Return(<<>>)
    /\ audioLen \in AudioLens
    /\ silence \in Silences
    /\ outdir \in StaleDirs
    /\ i = 0 /\ run = 1 /\ firstOut = NoFiles /\ clips = <<>>
    /\ CodecIdle /\ SaveIdle

\* os.makedirs(output_dir, exist_ok=True), then generate_files up to its loop
Srt2clip ==
    /\ pc = "start"
    /\ subtitles' = read_srt_file(content)
    /\ pc' = IF subtitles'.err THEN "raised" ELSE "loop"
    /\ i' = 0
    /\ clips' = <<>>
    /\ UNCHANGED <<doc, content, audioLen, silence, run, outdir, firstOut,
                   codecVars, saveVars>>

LoopBody ==
    /\ pc = "loop"
    /\ i < Len(subtitles.val)
    /\ LET c == GenerateClip(subtitles.val[i + 1], audioLen, silence)
       IN  /\ outdir' = WriteFile(WriteFile(outdir, c.audio_filename,
                                            c.chunk_with_silence),
                                  c.srt_filename, c.srt_content)
           /\ clips' = Append(clips, c)
    /\ i' = i + 1
    /\ UNCHANGED <<pc, textVars, audioLen, silence, run, firstOut, codecVars, saveVars>>

LoopEnd ==
    /\ pc = "loop"
    /\ i = Len(subtitles.val)
    /\ pc' = "done"
    /\ firstOut' = IF run = 1 THEN outdir ELSE firstOut
    /\ UNCHANGED <<textVars, audioLen, silence, i, run, outdir, clips,
                   codecVars, saveVars>>

\* The same batch run is started a second time.
RunAgain ==
    /\ pc = "done"
    /\ run = 1
    /\ run' = 2
    /\ pc' = "start"
    /\ UNCHANGED <<textVars, audioLen, silence, i, outdir, firstOut, clips,
                   codecVars, saveVars>>

BatchNext == Srt2clip \/ LoopBody \/ LoopEnd \/ RunAgain

BatchSpec == BatchInit /\ [][BatchNext]_vars

----------------------------------------------------------------------------
(* Single clip: a row of the table is selected (extract_audio_clips), a
   destination is typed, the save button runs save_clip *)

AudioInput == <<"/", "t", "/", "a", ".", "m", "p", "3">>

\* Path(p).name
BaseName(path) == LET parts == Split(path, <<"/">>) IN parts[Len(parts)]

\* Path(p).parent, for a path with a directory part
Parent(path) == SubSeq(path, 1, Len(path) - Len(BaseName(path)) - 1)

\* path.with_suffix(ext)
WithSuffix(path, ext) == Stem(path) \o ext

\* The files extract_audio_clips writes for a row, None for a time cell
\* parse_srt_time rejects
ExtractClip(row, len) ==
    LET start_ms == parse_srt_time(row[2])
        end_ms   == parse_srt_time(row[3])
    IN  IF start_ms.err \/ end_ms.err THEN ValueError
        ELSE LET clip == Slice(len, start_ms.val, end_ms.val)
                 clip_with_silence == add_silence(clip, 500)
                 wav_path == Parent(AudioInput) \o <<"/">> \o Stem(BaseName(AudioInput))
                             \o <<"_">> \o row[1] \o WavExt
             IN  Return([wav_path |-> wav_path,
                         clip_with_silence |-> clip_with_silence,
                         srt_path |-> WithSuffix(wav_path, SrtExt),
                         srt_content |-> ClipCaption(500, SegLen(clip_with_silence) - 500,
                                                     row[4])])

\* Directories: the path of each existing directory -> its files.
OutDir == <<"/", "o", "u", "t">>
LockedDir == <<"/", "r", "o">>
\* Directories the process may not write to.
ReadOnlyDirs == {LockedDir}

\* What the user may type as save_path: nothing, blanks, the two
\* directories, a path that does not exist, the path of a regular file.
SavePaths ==
    {<<>>, <<SP, SP>>, OutDir, LockedDir, <<"/", "n", "o">>, AudioInput}

\* Path(p).is_dir(): Path("") is the current directory
IsDir(path, d) == path = <<>> \/ path \in DOMAIN d

\* A variant of DestinationInvalid that only rejects a blank path.
DestinationBlank(path, d) == Strip(path) = <<>>

\* The guard of save_clip
DestinationInvalid(path, d) == ~IsDir(path, d) \/ Strip(path) = <<>>

\* os.path.exists(src) for a file of the audio's directory
SourceExists(path, tmp) ==
    /\ path # <<>>
    /\ Parent(path) = Parent(AudioInput)
    /\ BaseName(path) \in DOMAIN tmp

\* shutil.move(src, dst) into the directory dst raises when the name is
\* taken there, when src is gone, or when dst cannot be written.  A dst
\* that is no directory is the file's new path; the empty path is none.
MoveRaises(src, dst, tmp, d) ==
    \/ ~SourceExists(src, tmp)
    \/ dst = <<>>
    \/ dst \in ReadOnlyDirs
    \/ dst \in DOMAIN d /\ BaseName(src) \in DOMAIN d[dst]

Remove(dir, name) == [n \in DOMAIN dir \ {name} |-> dir[n]]

\* The directories and the audio's directory after shutil.move(src, dst)
MovedDirs(src, dst, tmp, d) ==
    IF dst \in DOMAIN d
    THEN [d EXCEPT ![dst] = WriteFile(d[dst], BaseName(src), tmp[BaseName(src)])]
    ELSE d

MovedTmp(src, tmp) == Remove(tmp, BaseName(src))

\* The table of the session: the rows of an uploaded two-record file.
SessionTable ==
    update_table(FileText(<<GoodBlock(1, 1000, 2500, Hello),
                            GoodBlock(12, 9000, 12000, World)>>)).val

\* OutDir may already hold a caption file of the same name.
StartDirs ==
    {[p \in {OutDir, LockedDir} |-> NoFiles],
     [p \in {OutDir, LockedDir} |->
        IF p = OutDir
        THEN [n \in {<<"a", "_", "1", ".", "s", "r", "t">>} |-> <<"o", "l", "d">>]
        ELSE NoFiles]}

SaveInit ==
    /\ pc = "ui"
    /\ doc = SessionTable
    /\ content = <<>> /\ subtitles = Return(<<>>)
    /\ audioLen = 10000
    /\ silence = 500 /\ i = 0 /\ run = 0
    /\ outdir = NoFiles /\ firstOut = NoFiles /\ clips = <<>>
    /\ tmpdir = NoFiles
    /\ dirs \in StartDirs
    /\ textClip = <<>> /\ savePath = <<>> /\ notice = "none"
    /\ CodecIdle

\* output_table.select: extract_audio_clips for the selected row
SelectRow ==
    /\ \E r \in 1..Len(doc) :
          LET c == ExtractClip(doc[r], audioLen)
          IN  /\ ~c.err
              /\ tmpdir' = WriteFile(WriteFile(tmpdir, BaseName(c.val.wav_path),
                                                c.val.clip_with_silence),
                                      BaseName(c.val.srt_path), c.val.srt_content)
              /\ textClip' = c.val.srt_path
    /\ UNCHANGED <<pc, textVars, batchVars, codecVars, dirs, savePath, notice>>

TypePath ==
    /\ \E p \in SavePaths : savePath' = p
    /\ UNCHANGED <<pc, textVars, batchVars, codecVars, tmpdir, dirs, textClip, notice>>

\* A temporary file is deleted behind the program's back.
DeleteTemp ==
    /\ \E n \in DOMAIN tmpdir : tmpdir' = Remove(tmpdir, n)
    /\ UNCHANGED <<pc, textVars, batchVars, codecVars, dirs, textClip, savePath, notice>>

\* save_btn.click: save_clip(text_select, save_path)
SaveClip ==
    /\ LET audio_clip == Replace(textClip, SrtExt, WavExt)
       IN  IF DestinationInvalid(savePath, dirs)
           THEN notice' = "warning: invalid path" /\ UNCHANGED <<tmpdir, dirs>>
           ELSE IF textClip = <<>> \/ MoveRaises(audio_clip, savePath, tmpdir, dirs)
           THEN notice' = "warning: save failed" /\ UNCHANGED <<tmpdir, dirs>>
           ELSE LET tmp1 == MovedTmp(audio_clip, tmpdir)
                    d1   == MovedDirs(audio_clip, savePath, tmpdir, dirs)
                IN  IF MoveRaises(textClip, savePath, tmp1, d1)
                    THEN /\ notice' = "warning: save failed"
                         /\ tmpdir' = tmp1
                         /\ dirs' = d1
                    ELSE /\ notice' = "info: saved"
                         /\ tmpdir' = MovedTmp(textClip, tmp1)
                         /\ dirs' = MovedDirs(textClip, savePath, tmp1, d1)
    /\ UNCHANGED <<pc, textVars, batchVars, codecVars, textClip, savePath>>

SaveNext == SelectRow \/ TypePath \/ DeleteTemp \/ SaveClip

SaveSpec == SaveInit /\ [][SaveNext]_vars

----------------------------------------------------------------------------
(* Properties *)

\* DD:DD:DD,DDD, exactly 12 characters
FixedWidth(s) ==
    /\ Len(s) = 12
    /\ \A p \in {1, 2, 4, 5, 7, 8, 10, 11, 12} :
          s[p] \in {"0", "1", "2", "3", "4", "5", "6", "7", "8", "9"}
    /\ s[3] = ":" /\ s[6] = ":" /\ s[9] = ","

\* C1: for every m in 0..359999999, parse_srt_time(format_time(m)) = m, and
\* the fields format_time writes are the floor-division decomposition of m
\* with milliseconds m mod 1000.
C1_RoundTrip ==
    (pc = "parsed" /\ ms <= 359999999) =>
        /\ ~parsedMs.err
        /\ parsedMs.val = ms
        /\ timeStr = TimeText(ms)

\* C8: whatever m >= 0 format_time is given, its result has exactly the 12
\* characters DD:DD:DD,DDD.
C8_FixedWidth == pc \in {"parse", "parsed"} => FixedWidth(timeStr)

\* C8 as amended: for every m in 0..359999999 (under 100 hours) the result
\* of format_time has exactly the 12 characters DD:DD:DD,DDD.
C8_FixedWidthUnder100h ==
    (pc \in {"parse", "parsed"} /\ ms <= 359999999) => FixedWidth(timeStr)

C8_Witness ==
    /\ pc = "parse"
    /\ ms = 359999999
    /\ timeStr = <<"9", "9", ":", "5", "9", ":", "5", "9", ",", "9", "9", "9">>

\* The blocks of claim C7: well-formed, or malformed in one of the two
\* ways the parser skips.
ClaimedBlocks(d) == \A n \in 1..Len(d) : d[n].kind \in {"good", "short", "noindex"}

RECURSIVE GoodSubs(_)
GoodSubs(d) ==
    IF d = <<>> THEN <<>>
    ELSE (IF Head(d).kind = "good" THEN <<Head(d).sub>> ELSE <<>>) \o GoodSubs(Tail(d))

\* C7: for a file made of well-formed blocks and of malformed blocks (fewer
\* than 3 lines, or no leading integer on the first line) in any positions,
\* read_srt_file raises nothing and returns exactly the records of the
\* well-formed blocks, in file order (index, start, end, and the text line
\* as block.strip() leaves it).
C7_SkipAndContinue ==
    (pc \in {"parsed", "raised"} /\ ClaimedBlocks(doc)) =>
        /\ ~subtitles.err
        /\ subtitles.val = GoodSubs(doc)

\* A 2-line block between two well-formed blocks: 2 records come back.
C7_Witness ==
    /\ pc = "parsed"
    /\ Len(doc) = 3
    /\ doc[1].kind = "good" /\ doc[2].kind = "short" /\ doc[3].kind = "good"
    /\ Len(doc[2].lines) = 2
    /\ Len(subtitles.val) = 2

\* The record read back is the row written: same index, times and text.
SameRow(sub, row) ==
    /\ DecStr(sub.idx) = row[1]
    /\ TimeText(sub.start) = row[2]
    /\ TimeText(sub.end) = row[3]
    /\ sub.text = row[4]

ReadBackIsTable ==
    /\ ~subtitles.err
    /\ Len(subtitles.val) = Len(doc)
    /\ \A n \in 1..Len(doc) : SameRow(subtitles.val[n], doc[n])

\* C9: for any sequence of rows with single-line text, the text of a row
\* possibly edited to the empty string, what save_edits writes is read back
\* by read_srt_file as the same number of records, in the same order, with
\* the same index, start, end and text.
C9_RoundTrip == pc = "parsed" => ReadBackIsTable

\* A text that is not empty and does not end in white space.
PlainText(t) == t # <<>> /\ t[Len(t)] \notin {SP, NL, "\t"}

\* C9 as amended: the round trip holds for rows whose text is a non-empty
\* single line that does not end in white space.
C9_RoundTripPlainText ==
    (pc = "parsed" /\ \A n \in 1..Len(doc) : PlainText(doc[n][4])) => ReadBackIsTable

\* Two rows, the first edited to a text with a leading blank, read back.
C9_Witness ==
    /\ pc = "parsed"
    /\ Len(doc) = 2
    /\ doc[1][4] = <<SP, "H", "i">>
    /\ PlainText(doc[2][4])
    /\ Len(subtitles.val) = 2

\* C2: for any record with end > start and any silence s >= 0, also a
\* record that reaches past the end of the recording, the clip lasts exactly
\* (end - start) + 2*s and its caption has start = s and end = duration - s.
C2_SlicePadding ==
    \A k \in 1..Len(clips) :
        LET c == clips[k]
        IN  c.end > c.start =>
                /\ c.duration = (c.end - c.start) + 2 * silence
                /\ c.start_time_new = silence
                /\ c.end_time_new = c.duration - silence

\* C2 as amended: the same for any record with end > start that ends
\* within the recording (end <= len(audio)).
C2_SlicePaddingWithinAudio ==
    \A k \in 1..Len(clips) :
        LET c == clips[k]
        IN  (c.end > c.start /\ c.end <= audioLen) =>
                /\ c.duration = (c.end - c.start) + 2 * silence
                /\ c.start_time_new = silence
                /\ c.end_time_new = c.duration - silence

C2_Witness ==
    /\ silence = 500
    /\ \E k \in 1..Len(clips) :
          /\ clips[k].start = 1000 /\ clips[k].end = 2500
          /\ clips[k].end <= audioLen
          /\ clips[k].duration = 2500
          /\ clips[k].end_time_new = 2000

\* The caption file of the worked example and the two clip captions.
ExampleFile ==
  <<"1", NL, "0", "0", ":", "0", "0", ":", "0", "1", ",", "0", "0", "0",
      SP, "-", "-", ">", SP, "0", "0", ":", "0", "0", ":", "0", "2",
      ",", "5", "0", "0", NL, "H", "e", "l", "l", "o", NL, NL, "2", NL,
      "0", "0", ":", "0", "0", ":", "0", "3", ",", "0", "0", "0", SP,
      "-", "-", ">", SP, "0", "0", ":", "0", "0", ":", "0", "4", ",",
      "0", "0", "0", NL, "W", "o", "r", "l", "d", NL, NL>>

ExampleCaption1 ==
  <<"1", NL, "0", "0", ":", "0", "0", ":", "0", "0", ",", "5", "0", "0",
      SP, "-", "-", ">", SP, "0", "0", ":", "0", "0", ":", "0", "2",
      ",", "0", "0", "0", NL, "H", "e", "l", "l", "o", NL>>

ExampleCaption2 ==
  <<"1", NL, "0", "0", ":", "0", "0", ":", "0", "0", ",", "5", "0", "0",
      SP, "-", "-", ">", SP, "0", "0", ":", "0", "0", ":", "0", "1",
      ",", "5", "0", "0", NL, "W", "o", "r", "l", "d", NL>>

Lesson1(digits, ext) == <<"l", "e", "s", "s", "o", "n", "1", "_">> \o digits \o ext

ExampleRun ==
    /\ pc = "done"
    /\ content = ExampleFile
    /\ audioLen = 10000
    /\ silence = 500

ExampleClips(duration1, duration2) ==
    /\ Len(clips) = 2
    /\ Lesson1(<<"0", "0", "1">>, WavExt) \in DOMAIN outdir
    /\ SegLen(outdir[Lesson1(<<"0", "0", "1">>, WavExt)]) = duration1
    /\ Lesson1(<<"0", "0", "1">>, SrtExt) \in DOMAIN outdir
    /\ outdir[Lesson1(<<"0", "0", "1">>, SrtExt)] = ExampleCaption1
    /\ Lesson1(<<"0", "0", "2">>, WavExt) \in DOMAIN outdir
    /\ SegLen(outdir[Lesson1(<<"0", "0", "2">>, WavExt)]) = duration2
    /\ Lesson1(<<"0", "0", "2">>, SrtExt) \in DOMAIN outdir
    /\ outdir[Lesson1(<<"0", "0", "2">>, SrtExt)] = ExampleCaption2

\* C3: the two-record example over a 10-second recording with 500 ms of
\* silence gives clip 1 of 2000 ms with caption 00:00:00,500 -->
\* 00:00:02,000 / Hello and clip 2 of 1500 ms with caption 00:00:00,500 -->
\* 00:00:01,500 / World.
C3_ExampleAsStated == ExampleRun => ExampleClips(2000, 1500)

\* C3 as amended: the same captions, with clip 1 lasting 2500 ms and clip 2
\* lasting 2000 ms (the slice plus 500 ms of silence on each side).
C3_Example == ExampleRun => ExampleClips(2500, 2000)

C3_Witness == ExampleRun /\ run = 1 /\ Len(clips) = 2 /\ clips[2].duration = 2000

\* The three digits the naming example gives for an index.
IndexDigits(idx) ==
    CASE idx = 1  -> <<"0", "0", "1">>
      [] idx = 2  -> <<"0", "0", "2">>
      [] idx = 12 -> <<"0", "1", "2">>

\* One pair per record: 2n files written, each record's pair named from
\* its index, the caption file of the pair holding the record's text.
PairPerRecord ==
    LET subs == subtitles.val
    IN  /\ Cardinality({clips[k].audio_filename : k \in 1..Len(clips)}
                        \cup {clips[k].srt_filename : k \in 1..Len(clips)})
           = 2 * Len(subs)
        /\ \A k \in 1..Len(subs) :
              /\ Lesson1(IndexDigits(subs[k].idx), WavExt) \in DOMAIN outdir
              /\ Lesson1(IndexDigits(subs[k].idx), SrtExt) \in DOMAIN outdir
              /\ Split(outdir[Lesson1(IndexDigits(subs[k].idx), SrtExt)], <<NL>>)[3]
                 = subs[k].text

DistinctIndices ==
    \A j, k \in 1..Len(subtitles.val) :
        j # k => subtitles.val[j].idx # subtitles.val[k].idx

\* C4: after a batch run over any parsed document of n records, indices
\* not necessarily distinct, the output directory holds one pair of files
\* per record, named {base_name}_{index:03d}, the caption file carrying the
\* record's text.
C4_OnePairPerRecord == pc = "done" => PairPerRecord

\* C4 as amended: the same for a document whose records have pairwise
\* distinct indices.
C4_OnePairPerDistinctIndex == (pc = "done" /\ DistinctIndices) => PairPerRecord

C4_Witness ==
    /\ pc = "done"
    /\ Len(subtitles.val) = 2
    /\ subtitles.val[1].idx = 12 /\ subtitles.val[2].idx = 1
    /\ Lesson1(<<"0", "1", "2">>, SrtExt) \in DOMAIN outdir
    /\ Lesson1(<<"0", "0", "1">>, WavExt) \in DOMAIN outdir

\* C6: a second batch run with the same inputs leaves the output directory
\* with the same file names and the same content per file as the first.
C6_IdempotentRun == (pc = "done" /\ run = 2) => outdir = firstOut

\* The second run of a two-record document is over.
C6_Witness ==
    /\ pc = "done" /\ run = 2
    /\ Len(clips) = 2
    /\ Cardinality(DOMAIN outdir) >= 4

\* A save_path that is empty, blank, or no existing directory
InvalidDestination ==
    \/ \A n \in 1..Len(savePath) : savePath[n] = SP
    \/ savePath \notin DOMAIN dirs

\* C5: save_clip called with an empty or blank destination, or a path that
\* is no existing directory, moves, creates and deletes nothing and reports
\* the invalid-path warning.
C5_InvalidDestination ==
    [][(SaveClip /\ InvalidDestination) =>
          /\ tmpdir' = tmpdir
          /\ dirs' = dirs
          /\ notice' = "warning: invalid path"]_vars

\* A clip is selected, both files are there, the save with an empty
\* destination has reported the warning.
C5_Witness ==
    /\ notice = "warning: invalid path"
    /\ savePath = <<>>
    /\ textClip # <<>>
    /\ {BaseName(textClip), BaseName(Replace(textClip, SrtExt, WavExt))}
          \subseteq DOMAIN tmpdir

\* The files of the selected clip, by name
ClipPair == {BaseName(textClip), BaseName(Stem(textClip) \o WavExt)}

\* C10: after save_clip returns for a valid destination, whether or not a
\* move failed, the audio clip and its caption are both in the destination
\* or both still where they were; success is reported only when both moved.
C10_PairTogether ==
    [][(SaveClip /\ ~InvalidDestination /\ textClip # <<>>) =>
          /\ \/ /\ ClipPair \subseteq DOMAIN dirs'[savePath]
                /\ ClipPair \cap DOMAIN tmpdir' = {}
             \/ /\ dirs' = dirs
                /\ tmpdir' = tmpdir
          /\ notice' = "info: saved" => ClipPair \subseteq DOMAIN dirs'[savePath]]_vars

====
